---- MODULE Spec2Model ----
(***************************************************************************)
(* Model of the CouchDB change-feed listener (app/services/                *)
(* couchdb_listener.py) and of the revalidation notifier (app/services/    *)
(* revalidate_posts.py), and of the POST /prompt handler (app/routers/      *)
(* rag.py) with its chat log (app/services/chat_logger.py).                *)
(*                                                                         *)
(* Python strings are sequences of one-character strings, so that strip,   *)
(* startswith, removeprefix and endswith are computed character by         *)
(* character.  Python's None is the one-element sequence None, which is no *)
(* string because its element is not a character.                          *)
(***************************************************************************)
EXTENDS Integers, Sequences, FiniteSets, TLC

VARIABLES
    pc,            \* position of the code under study
    stop,          \* STOP_LISTENER_EVENT.is_set()
    backoff,       \* listen_changes: backoff
    last_seq,      \* listen_changes: last_seq (local)
    persisted,     \* the row behind LastSeqRepo (survives a restart)
    since,         \* the since= value of the request of this iteration
    streamPos,     \* feed position of the last event the open response delivered
    response,      \* "none" | "open" | "closed": the httpx response of this iteration
    change,        \* the change being handled (NoChange when none)
    index,         \* the Doc table: a set of chunks
    result,        \* what the handling of the last line of the open response did
    applied,       \* feed positions on which process_change has run (history)
    waits,         \* the reconnect waits of the current run of failures, restarted
                   \* by the wait that follows a successful connection (history)
    everConnected, \* a connection succeeded since the process started (history)
    crashes,       \* number of crash-and-restarts so far
    secret,        \* RevalidatePostsService.secret
    has_fn,        \* process_change: revalidate_posts_fn is not None
    reply,         \* what the endpoint did with the last POST ("none": no POST yet)
    arg,           \* revalidate_posts: the slug of the last call
    ret,           \* revalidate_posts: the value the last call returned
    posted,        \* the requests client.post has been called with, in order
    rq,            \* POST /prompt: the requests, each with its input and its locals
    chat_messages, \* the committed rows of the chat_messages table
    status         \* the status code of the last response of the feed (0: none yet)

vars == <<pc, stop, backoff, last_seq, persisted, since, streamPos, response,
          change, index, result, applied, waits, everConnected, crashes,
          secret, has_fn, reply, arg, ret, posted, rq, chat_messages, status>>

----------------------------------------------------------------------------
(* Bounds *)

MaxSeq == 2        \* events in the feed
MaxChunks == 2     \* chunks a document is split into, at most
MaxWaits == 8      \* failed connection attempts in a row, when the feed carries no change
MaxRetries == 2    \* failed connection attempts in a row, when the feed carries changes
MaxCrashes == 1    \* crash-and-restarts of the listener process
MaxCalls == 3      \* calls of revalidate_posts on one service object
MaxMessages == 2   \* messages in the body of one POST /prompt

----------------------------------------------------------------------------
(* Python strings *)

None == <<"None">>

S_blog == <<"/", "b", "l", "o", "g", "/">>
S_kb == <<"/", "k", "b", "/">>
S_md == <<".", "m", "d">>

\* settings.BLOG_PREFIX, settings.KB_PREFIX
BLOG_PREFIX == S_blog
KB_PREFIX == S_kb

Min(a, b) == IF a < b THEN a ELSE b

\* bool(x) of an optional string
Truthy(s) == s # None /\ s # <<>>

\* x or y
Or(x, y) == IF Truthy(x) THEN x ELSE y

RECURSIVE lstrip(_)
lstrip(s) == IF s # <<>> /\ Head(s) = " " THEN lstrip(Tail(s)) ELSE s

RECURSIVE rstrip(_)
rstrip(s) ==
    IF s # <<>> /\ s[Len(s)] = " " THEN rstrip(SubSeq(s, 1, Len(s) - 1)) ELSE s

\* str.strip()
strip(s) == rstrip(lstrip(s))

\* str.startswith(p)
startswith(s, p) == Len(s) >= Len(p) /\ SubSeq(s, 1, Len(p)) = p

\* str.endswith(p)
endswith(s, p) == Len(s) >= Len(p) /\ SubSeq(s, Len(s) - Len(p) + 1, Len(s)) = p

\* str.removeprefix(p)
removeprefix(s, p) == IF startswith(s, p) THEN SubSeq(s, Len(p) + 1, Len(s)) ELSE s

----------------------------------------------------------------------------
(* RevalidatePostsService *)

\* RevalidatePostsService.url
URL == "http://example.com/revalidate"

\* what the endpoint does with one POST
Outcomes == {"ok", "status_error", "transport_error"}

\* headers = {"x-revalidate-secret": self.secret}
Headers(sec) == [x_revalidate_secret |-> sec]

\* mutant: the body is sent whatever the slug
Payload_Always(slug) == <<"slug", slug>>

\* payload = {"slug": slug} if slug else None
Payload(slug) == IF Truthy(slug) THEN <<"slug", slug>> ELSE None

\* mutant: the status of the response is not tested
Post_NoStatusCheck(headers, payload, outcome) ==
    [ret |-> (outcome # "transport_error"),
     posted |-> <<[url |-> URL, headers |-> headers, json |-> payload]>>]

\* _post: one client.post, raise_for_status, every exception turned into False
Post(headers, payload, outcome) ==
    [ret |-> (outcome = "ok"),
     posted |-> <<[url |-> URL, headers |-> headers, json |-> payload]>>]

\* mutant: the secret is not tested
revalidate_posts_NoGuard(sec, slug, outcome) ==
    Post(Headers(sec), Payload(slug), outcome)

\* revalidate_posts(slug): the value returned and the requests issued
revalidate_posts(sec, slug, outcome) ==
    IF ~Truthy(sec)
    THEN [ret |-> FALSE, posted |-> <<>>]
    ELSE Post(Headers(sec), Payload(slug), outcome)

----------------------------------------------------------------------------
(* process_change *)

DocIds == {S_blog \o <<"p">> \o S_md, <<"d">>}

Paths ==
    { None,
      <<>>,
      S_blog,
      S_blog \o <<"p">> \o S_md,
      S_blog \o <<"p">>,
      S_blog \o <<" ">> \o S_md,
      <<" ">> \o S_blog \o <<"p">>,
      S_kb \o <<"a">>,
      <<"/", "x", "/", "a">> }

Types == {"plain", "leaf"}

\* the slug ingest_doc returns
IngestedSlugs ==
    { None,
      S_blog \o <<"q">>,
      <<" ">> \o S_blog \o <<"q">> \o S_md \o <<" ">>,
      S_kb \o <<"a">> }

NoChange == [seq |-> 0, hasSeq |-> FALSE, hasDoc |-> FALSE, id |-> <<>>,
             deleted |-> FALSE, type |-> "plain", path |-> None]

\* the documents a change can carry
Docs == [id : DocIds, deleted : BOOLEAN, type : Types, path : Paths]

Chunk(id, i) == [document_id |-> id, chunk |-> i]

ChunksOf(idx, id) == {c \in idx : c.document_id = id}

\* what ingest_fn does: raise, or replace the chunks of the document and return a slug
IngestInputs == [raises : BOOLEAN, chunks : 0..MaxChunks, slug : IngestedSlugs]

ingest_doc(idx, id, n) == (idx \ ChunksOf(idx, id)) \cup {Chunk(id, i) : i \in 1..n}

\* mutation: the index operation attempted; failed: it raised; raised: the
\* exception left process_change; ingested: the slug ingest_fn returned;
\* chunks: the number of chunks ingest_fn made of the document;
\* line: the text of the line, when the line was skipped;
\* calls: the slugs revalidate_posts_fn was called with; returned: what those
\* calls returned; posted: the requests they issued; replies: what the
\* endpoint did with each of those requests; earlier: the last line error
\* ("invalid_json" or "failed") on an earlier line of the same response (history)
NoResult == [mutation |-> "none", deleted_count |-> 0, failed |-> FALSE,
             raised |-> FALSE, ingested |-> None, calls |-> <<>>,
             returned |-> <<>>, posted |-> <<>>, replies |-> <<>>,
             earlier |-> "none", chunks |-> 0, line |-> <<>>]

\* _extract_blog_slug(doc, ingested_slug=...)
ExtractCandidate(path, id, ingested_slug) ==
    Or(strip(Or(ingested_slug, <<>>)), Or(path, Or(id, <<>>)))

extract_blog_slug(path, id, ingested_slug) ==
    LET candidate == ExtractCandidate(path, id, ingested_slug)
        slug1 == removeprefix(candidate, BLOG_PREFIX)
        slug2 == IF endswith(slug1, S_md) THEN SubSeq(slug1, 1, Len(slug1) - 3) ELSE slug1
        slug3 == strip(slug2)
    IN  IF ~startswith(candidate, BLOG_PREFIX) THEN None
        ELSE Or(slug3, None)

\* the candidate the delete branch tests against the blog prefix
DeleteCandidate(path, id) == strip(Or(path, Or(id, <<>>)))

\* the delete branch notifies when its candidate is under the blog prefix
DeleteNotifies(path, id) == startswith(DeleteCandidate(path, id), BLOG_PREFIX)

\* the ingest branch notifies when the slug is not None
IngestNotifies(slug) == slug # None

\* mutant: the path is not tested
Skipped_TypeOnly(c) == c.type # "plain"

\* doc.get("type") != "plain" or the path outside both prefixes
Skipped(c) ==
    \/ c.type # "plain"
    \/ ~(startswith(Or(c.path, <<>>), BLOG_PREFIX) \/ startswith(Or(c.path, <<>>), KB_PREFIX))

\* revalidate_posts_fn(slug), as the listener binds it
Notify(r, sec, slug, outcome) ==
    LET n == revalidate_posts(sec, slug, outcome)
    IN  [r EXCEPT !.calls = Append(@, slug), !.returned = Append(@, n.ret),
                  !.posted = @ \o n.posted,
                  !.replies = IF n.posted = <<>> THEN @ ELSE Append(@, outcome)]

\* mutant: the delete query removes one row of the document, not all
DeleteFilter_First(idx, id) ==
    {c \in ChunksOf(idx, id) : \A d \in ChunksOf(idx, id) : c.chunk <= d.chunk}

\* mutant: the delete query has no filter
DeleteFilter_All(idx, id) == idx

\* the rows the delete query removes
DeleteFilter(idx, id) == ChunksOf(idx, id)

\* the delete branch
DeleteBranch(c, idx, fn, sec, db_ok, outcome) ==
    IF ~db_ok
    THEN [index |-> idx, result |-> [NoResult EXCEPT !.mutation = "delete", !.failed = TRUE, !.raised = TRUE]]
    ELSE LET gone == DeleteFilter(idx, c.id)
             r == [NoResult EXCEPT !.mutation = "delete", !.deleted_count = Cardinality(gone)]
         IN  [index |-> idx \ gone,
              result |-> IF fn /\ DeleteNotifies(c.path, c.id)
                         THEN Notify(r, sec, extract_blog_slug(c.path, c.id, None), outcome)
                         ELSE r]

\* mutant: the handler of the exception of ingest_fn logs and does not return
IngestBranch_NoReturn(c, idx, fn, sec, ing, outcome) ==
    LET r == [NoResult EXCEPT !.mutation = "ingest", !.failed = ing.raises,
                              !.ingested = IF ing.raises THEN None ELSE ing.slug,
                              !.chunks = IF ing.raises THEN 0 ELSE ing.chunks]
        slug == extract_blog_slug(c.path, c.id, r.ingested)
    IN  [index |-> IF ing.raises THEN idx ELSE ingest_doc(idx, c.id, ing.chunks),
         result |-> IF fn /\ IngestNotifies(slug)
                    THEN Notify(r, sec, slug, outcome)
                    ELSE r]

\* the ingest branch
IngestBranch(c, idx, fn, sec, ing, outcome) ==
    IF ing.raises
    THEN [index |-> idx, result |-> [NoResult EXCEPT !.mutation = "ingest", !.failed = TRUE]]
    ELSE LET r == [NoResult EXCEPT !.mutation = "ingest", !.ingested = ing.slug,
                                   !.chunks = ing.chunks]
             slug == extract_blog_slug(c.path, c.id, ing.slug)
         IN  [index |-> ingest_doc(idx, c.id, ing.chunks),
              result |-> IF fn /\ IngestNotifies(slug)
                         THEN Notify(r, sec, slug, outcome)
                         ELSE r]

\* process_change(change, db_session, parser, revalidate_posts_fn=...)
process_change(c, idx, fn, sec, ing, db_ok, outcome) ==
    IF ~c.hasDoc THEN [index |-> idx, result |-> NoResult]
    ELSE IF c.deleted THEN DeleteBranch(c, idx, fn, sec, db_ok, outcome)
    ELSE IF Skipped(c) THEN [index |-> idx, result |-> NoResult]
    ELSE IngestBranch(c, idx, fn, sec, ing, outcome)

----------------------------------------------------------------------------
(* The states the Doc table can be in: every document has chunks 1..n *)

Indexes == {UNION {{Chunk(id, i) : i \in 1..n[id]} : id \in DocIds} : n \in [DocIds -> 0..MaxChunks]}

\* the changes the feed can carry at position p
Changes(p) ==
    {[seq |-> p, hasSeq |-> h, hasDoc |-> TRUE, id |-> d.id, deleted |-> d.deleted,
      type |-> d.type, path |-> d.path] : h \in BOOLEAN, d \in Docs}
    \cup {[NoChange EXCEPT !.seq = p, !.hasSeq = TRUE]}

----------------------------------------------------------------------------
(* listen_changes *)

\* the documents the listener's feed carries
FeedPaths == {None, S_blog, S_blog \o <<"p">> \o S_md}

FeedIds == {S_blog \o <<"p">> \o S_md}

FeedChanges(p) == {c \in Changes(p) : c.path \in FeedPaths /\ (c.hasDoc => c.id \in FeedIds)}

\* what ingest_fn does in the listener
FeedIngests == {g \in IngestInputs : g.chunks = 1 /\ g.slug \in {None, S_blog \o <<"q">>}}

\* backoff = 1
InitialBackoff == 1

\* the cap of min(backoff * 2, 60)
BackoffCap == 60

\* mutant: the backoff is not reset on a successful connection
ResetBackoff_Kept(b) == b

\* backoff = 1  # reset backoff after successful connection
ResetBackoff(b) == InitialBackoff

\* mutant: the doubling is not capped
NextBackoff_NoCap(b) == b * 2

\* backoff = min(backoff * 2, 60)
NextBackoff(b) == Min(b * 2, BackoffCap)

\* seq_repo.get_last_seq(): the value of the single cursor row
get_last_seq == persisted

\* seq_repo.update_last_seq(seq): the cursor row after the call, which is durable
update_last_seq(seq) == seq

\* mutant: a change without seq falls back to 0, not to the prior value
ChangeSeq_NoFallback(c, prior) == IF c.hasSeq THEN c.seq ELSE 0

\* last_seq = change.get("seq", last_seq)
ChangeSeq(c, prior) == IF c.hasSeq THEN c.seq ELSE prior

Init ==
    /\ pc = "loop"
    /\ stop = FALSE
    /\ backoff = InitialBackoff
    /\ last_seq = 0 /\ persisted = 0 /\ since = 0 /\ streamPos = 0
    /\ response = "none"
    /\ change = NoChange
    /\ index = {}
    /\ result = NoResult
    /\ applied = {} /\ waits = <<>> /\ everConnected = FALSE /\ crashes = 0
    /\ secret \in {<<>>, <<"s">>}
    /\ has_fn = TRUE
    /\ arg = None /\ ret = FALSE /\ posted = <<>> /\ reply = "none"
    /\ rq = <<>> /\ chat_messages = {} /\ status = 0

\* mutant: the loop over the lines has no handler of its own, and an exception
\* raised for a line ends the response
LineHandler_Propagate(exc) == "reconnect"

\* mutant: only json.JSONDecodeError is handled per line
LineHandler_JsonOnly(exc) == IF exc = "JSONDecodeError" THEN "stream" ELSE "reconnect"

\* except json.JSONDecodeError / except Exception around the handling of one
\* line: both log, and the loop goes on with the next line
LineHandler(exc) == "stream"

\* the line error the next lines of the response have behind them
Earlier(r) ==
    IF r.failed THEN "failed"
    ELSE IF r.mutation = "invalid_json" THEN "invalid_json"
    ELSE r.earlier

\* the inputs of one run of process_change that the run can read: what
\* ingest_fn does when the ingest branch is taken, whether the delete query
\* succeeds when the delete branch is taken, what the endpoint answers when a
\* branch that notifies is taken with a secret; an input the run cannot read
\* is not drawn
Drawn(c, sec, ing, db_ok, outcome) ==
    LET del == c.hasDoc /\ c.deleted
        ingest == c.hasDoc /\ ~c.deleted /\ ~Skipped(c)
    IN  /\ ~ingest => ing = [raises |-> FALSE, chunks |-> 1, slug |-> None]
        /\ ~del => db_ok
        /\ ~((del \/ ingest) /\ Truthy(sec)) => outcome = "ok"

\* the variables the listener never touches
Fixed == <<secret, has_fn, reply, arg, ret, posted, rq, chat_messages>>

\* what every step of the listener but the start of a response leaves alone
Kept == <<Fixed, status>>

\* the status codes of the responses that are no success
ErrorStatuses == {401, 500}

\* while not STOP_LISTENER_EVENT.is_set()
LoopCheck ==
    /\ pc = "loop"
    /\ pc' = IF stop THEN "stopped" ELSE "connect"
    /\ response' = "none"
    /\ result' = NoResult
    /\ UNCHANGED <<stop, backoff, last_seq, persisted, since, streamPos, change,
                   index, applied, waits, everConnected, crashes, Kept>>

\* mutant: the request is built from the local last_seq, which is not read again
Connect_Stale ==
    /\ pc = "connect"
    /\ since' = last_seq
    /\ streamPos' = since'
    /\ response' = "open"
    /\ backoff' = ResetBackoff(backoff)
    /\ everConnected' = TRUE
    /\ status' = 200
    /\ pc' = "stream"
    /\ UNCHANGED <<stop, last_seq, persisted, change, index, result, applied, waits,
                   crashes, Fixed>>

\* mutant: the status of the response is tested before the backoff is reset,
\* and a response that is no success is handled as a failed request
ConnectStatus_Checked(st) ==
    /\ pc = "connect"
    /\ last_seq' = get_last_seq
    /\ since' = last_seq'
    /\ status' = st
    /\ IF st = 200
       THEN /\ streamPos' = since'
            /\ response' = "open"
            /\ backoff' = ResetBackoff(backoff)
            /\ pc' = "stream"
       ELSE /\ response' = "closed"
            /\ pc' = "reconnect"
            /\ UNCHANGED <<streamPos, backoff>>
    /\ everConnected' = TRUE
    /\ UNCHANGED <<stop, persisted, change, index, result, applied, waits,
                   crashes, Fixed>>

\* read the cursor, open the stream, reset the backoff: the response has
\* started with status st, which the code does not look at; a feed requested
\* with since=s delivers the changes after position s
ConnectStatus(st) ==
    /\ pc = "connect"
    /\ last_seq' = get_last_seq
    /\ since' = last_seq'
    /\ streamPos' = since'
    /\ response' = "open"
    /\ status' = st
    /\ backoff' = ResetBackoff(backoff)
    /\ everConnected' = TRUE
    /\ pc' = "stream"
    /\ UNCHANGED <<stop, persisted, change, index, result, applied, waits,
                   crashes, Fixed>>

\* the feed answers 200
Connect == ConnectStatus(200)

\* the feed answers with an error status
ConnectError == \E st \in ErrorStatuses : ConnectStatus(st)

\* the request fails: httpx.RequestError, or any other exception on the way
ConnectFail(max) ==
    /\ pc = "connect"
    /\ Len(waits) < max
    /\ last_seq' = get_last_seq
    /\ since' = last_seq'
    /\ pc' = "reconnect"
    /\ UNCHANGED <<stop, backoff, persisted, streamPos, response, change, index,
                   result, applied, waits, everConnected, crashes, Kept>>

\* a line arrives and the flag is set: return
RecvStop ==
    /\ pc = "stream"
    /\ stop
    /\ response' = "closed"
    /\ result' = NoResult
    /\ pc' = "stopped"
    /\ UNCHANGED <<stop, backoff, last_seq, persisted, since, streamPos, change,
                   index, applied, waits, everConnected, crashes, Kept>>

\* the lines that carry no change: empty, whitespace only, no JSON, JSON that
\* is no object
SkippedLines == {<<>>, <<" ">>, <<" ", " ">>, <<" ", "x">>, <<"5">>}

\* mutant: the line is not stripped before it is tested
IsBlank_NoStrip(line) == ~Truthy(line)

\* line = line.strip(); if not line: continue
IsBlank(line) == ~Truthy(strip(line))

\* what the handling of a line that carries no change runs into
LineKind(line) ==
    IF IsBlank(line) THEN "blank"
    ELSE IF strip(line) = <<"5">> THEN "not_an_object"
    ELSE "invalid_json"

\* a blank line (heartbeat), a line that is no JSON, or JSON that is no object
RecvSkipped ==
    /\ pc = "stream"
    /\ ~stop
    /\ \E text \in SkippedLines :
          LET kind == LineKind(text)
          IN
          /\ result' = [NoResult EXCEPT !.mutation = kind, !.line = text,
                                        !.earlier = Earlier(result)]
          /\ pc' = IF kind = "blank" THEN "stream"
                   ELSE IF kind = "invalid_json" THEN LineHandler("JSONDecodeError")
                   ELSE LineHandler("Exception")
    /\ response' = IF pc' = "stream" THEN response ELSE "closed"
    /\ change' = NoChange
    /\ UNCHANGED <<stop, backoff, last_seq, persisted, since, streamPos,
                   index, applied, waits, everConnected, crashes, Kept>>

\* mutant: the cursor is not written when the change arrives
RecvChange_NoWrite ==
    /\ pc = "stream"
    /\ ~stop
    /\ streamPos < MaxSeq
    /\ \E c \in FeedChanges(streamPos + 1) :
          /\ change' = c
          /\ last_seq' = ChangeSeq(c, last_seq)
    /\ streamPos' = streamPos + 1
    /\ result' = [NoResult EXCEPT !.earlier = Earlier(result)]
    /\ pc' = "process"
    /\ UNCHANGED <<stop, backoff, persisted, since, response, index, applied, waits,
                   everConnected, crashes, Kept>>

\* a change arrives: json.loads, last_seq, update_last_seq
RecvChange ==
    /\ pc = "stream"
    /\ ~stop
    /\ streamPos < MaxSeq
    /\ \E c \in FeedChanges(streamPos + 1) :
          /\ change' = c
          /\ last_seq' = ChangeSeq(c, last_seq)
    /\ persisted' = update_last_seq(last_seq')
    /\ streamPos' = streamPos + 1
    /\ result' = [NoResult EXCEPT !.earlier = Earlier(result)]
    /\ pc' = "process"
    /\ UNCHANGED <<stop, backoff, since, response, index, applied, waits,
                   everConnected, crashes, Kept>>

\* process_change(change, ...), its exceptions caught by the per-line handler
Process ==
    /\ pc = "process"
    /\ \E ing \in FeedIngests, db_ok \in BOOLEAN, outcome \in Outcomes :
          LET r == process_change(change, index, has_fn, secret, ing, db_ok, outcome)
          IN  /\ Drawn(change, secret, ing, db_ok, outcome)
              /\ index' = r.index
              /\ result' = [r.result EXCEPT !.earlier = result.earlier]
              /\ pc' = IF r.result.raised THEN LineHandler("Exception") ELSE "stream"
    /\ response' = IF pc' = "stream" THEN response ELSE "closed"
    /\ applied' = applied \cup {change.seq}
    /\ change' = NoChange
    /\ UNCHANGED <<stop, backoff, last_seq, persisted, since, streamPos,
                   waits, everConnected, crashes, Kept>>

\* mutant: an exception raised while reading the stream ends the listener
StreamEnd_Fatal ==
    /\ pc = "stream"
    /\ response' = "closed"
    /\ result' = NoResult
    /\ pc' = "stopped"
    /\ UNCHANGED <<stop, backoff, last_seq, persisted, since, streamPos, change,
                   index, applied, waits, everConnected, crashes, Kept>>

\* the server closes the stream, or reading it raises
StreamEnd ==
    /\ pc = "stream"
    /\ response' = "closed"
    /\ result' = NoResult
    /\ pc' = "reconnect"
    /\ UNCHANGED <<stop, backoff, last_seq, persisted, since, streamPos, change,
                   index, applied, waits, everConnected, crashes, Kept>>

\* if not STOP_LISTENER_EVENT.is_set(): log the wait and start it
ReconnectCheck ==
    /\ pc = "reconnect"
    /\ IF stop
       THEN pc' = "loop" /\ UNCHANGED waits
       ELSE /\ pc' = "wait"
            /\ waits' = IF response = "closed" THEN <<backoff>> ELSE Append(waits, backoff)
    /\ UNCHANGED <<stop, backoff, last_seq, persisted, since, streamPos, response,
                   change, index, result, applied, everConnected, crashes, Kept>>

\* STOP_LISTENER_EVENT.wait(backoff) returns; the backoff doubles
WaitDone ==
    /\ pc = "wait"
    /\ backoff' = NextBackoff(backoff)
    /\ pc' = "loop"
    /\ UNCHANGED <<stop, last_seq, persisted, since, streamPos, response, change,
                   index, result, applied, waits, everConnected, crashes, Kept>>

\* stop_listener()
StopListener ==
    /\ ~stop
    /\ pc # "stopped"
    /\ stop' = TRUE
    /\ UNCHANGED <<pc, backoff, last_seq, persisted, since, streamPos, response,
                   change, index, result, applied, waits, everConnected, crashes,
                   Kept>>

\* the process dies and start_listener() runs in a new process: the locals
\* are lost, the cursor row and the Doc table are kept
CrashRestart ==
    /\ crashes < MaxCrashes
    /\ crashes' = crashes + 1
    /\ pc' = "loop"
    /\ stop' = FALSE
    /\ backoff' = InitialBackoff
    /\ last_seq' = 0 /\ since' = 0 /\ streamPos' = 0
    /\ response' = "none"
    /\ change' = NoChange
    /\ result' = NoResult
    /\ waits' = <<>>
    /\ everConnected' = FALSE
    /\ status' = 0
    /\ UNCHANGED <<persisted, index, applied, Fixed>>

Next ==
    \/ LoopCheck
    \/ Connect
    \/ ConnectFail(MaxRetries)
    \/ RecvStop
    \/ RecvSkipped
    \/ RecvChange
    \/ Process
    \/ StreamEnd
    \/ ReconnectCheck
    \/ WaitDone
    \/ StopListener
    \/ CrashRestart

Spec == Init /\ [][Next]_vars

----------------------------------------------------------------------------
(* SpecReconnect: the listener on a feed that carries no change *)

NextReconnect ==
    \/ LoopCheck
    \/ Connect
    \/ ConnectError
    \/ ConnectFail(MaxWaits)
    \/ RecvStop
    \/ RecvSkipped
    \/ StreamEnd
    \/ ReconnectCheck
    \/ WaitDone
    \/ StopListener

SpecReconnect == Init /\ [][NextReconnect]_vars

----------------------------------------------------------------------------
(* SpecChange: process_change applied to a drawn change and index, once and *)
(* then a second time                                                       *)

InitChange ==
    /\ pc = "ready"
    /\ change \in {c \in Changes(1) : c.hasSeq}
    /\ index \in Indexes
    /\ secret \in {<<>>, <<"s">>}
    /\ has_fn \in BOOLEAN
    /\ result = NoResult
    /\ stop = FALSE /\ backoff = 1 /\ last_seq = 0 /\ persisted = 0 /\ since = 0
    /\ streamPos = 0 /\ response = "none" /\ applied = {} /\ waits = <<>>
    /\ everConnected = FALSE /\ crashes = 0
    /\ arg = None /\ ret = FALSE /\ posted = <<>> /\ reply = "none"
    /\ rq = <<>> /\ chat_messages = {} /\ status = 0

ProcessChange ==
    /\ pc = "ready"
    /\ \E ing \in IngestInputs, db_ok \in BOOLEAN, outcome \in Outcomes :
          LET r == process_change(change, index, has_fn, secret, ing, db_ok, outcome)
          IN  /\ index' = r.index
              /\ result' = r.result
    /\ pc' = "done"
    /\ UNCHANGED <<stop, backoff, last_seq, persisted, since, streamPos, response,
                   change, applied, waits, everConnected, crashes, secret, has_fn,
                   reply, arg, ret, posted, rq, chat_messages, status>>

\* the same change is delivered again and process_change runs on it a second
\* time: the document is the same, so ingest_fn does with it what it did the
\* first time, and so does the delete query; the endpoint answers as it likes
ProcessAgain ==
    /\ pc = "done"
    /\ \E ing \in IngestInputs, db_ok \in BOOLEAN, outcome \in Outcomes :
          LET r == process_change(change, index, has_fn, secret, ing, db_ok, outcome)
          IN  /\ ing.raises = (result.mutation = "ingest" /\ result.failed)
              /\ ing.slug = result.ingested
              /\ ing.chunks = result.chunks
              /\ db_ok = ~(result.mutation = "delete" /\ result.failed)
              /\ index' = r.index
              /\ result' = r.result
    /\ pc' = "again"
    /\ UNCHANGED <<stop, backoff, last_seq, persisted, since, streamPos, response,
                   change, applied, waits, everConnected, crashes, secret, has_fn,
                   reply, arg, ret, posted, rq, chat_messages, status>>

NextChange == ProcessChange \/ ProcessAgain

SpecChange == InitChange /\ [][NextChange]_vars

----------------------------------------------------------------------------
(* SpecRevalidate: calls of revalidate_posts on one service object *)

Secrets == {None, <<>>, <<"s">>, <<"t">>}

Slugs == {None, <<>>, <<"p">>, <<"m", "y", "-", "p", "o", "s", "t">>}

InitRevalidate ==
    /\ pc = "idle"
    /\ secret \in Secrets
    /\ arg = None /\ ret = FALSE /\ posted = <<>> /\ reply = "none"
    /\ rq = <<>> /\ chat_messages = {} /\ status = 0
    /\ change = NoChange /\ index = {} /\ has_fn = TRUE /\ result = NoResult
    /\ stop = FALSE /\ backoff = 1 /\ last_seq = 0 /\ persisted = 0 /\ since = 0
    /\ streamPos = 0 /\ response = "none" /\ applied = {} /\ waits = <<>>
    /\ everConnected = FALSE /\ crashes = 0

\* one call service.revalidate_posts(slug), the endpoint answering with outcome
Revalidate ==
    /\ pc \in {"idle", "returned"}
    /\ Len(posted) < MaxCalls
    /\ \E slug \in Slugs, outcome \in Outcomes :
          LET r == revalidate_posts(secret, slug, outcome)
          IN  /\ arg' = slug
              /\ ret' = r.ret
              /\ posted' = posted \o r.posted
              /\ reply' = IF r.posted = <<>> THEN reply ELSE outcome
    /\ pc' = "returned"
    /\ UNCHANGED <<stop, backoff, last_seq, persisted, since, streamPos, response,
                   change, index, result, applied, waits, everConnected, crashes,
                   secret, has_fn, rq, chat_messages, status>>

NextRevalidate == Revalidate

SpecRevalidate == InitRevalidate /\ [][NextRevalidate]_vars

----------------------------------------------------------------------------
(* SpecPrompt: POST /prompt (prompt_rag), two requests handled concurrently *)
(* on one chat_messages table, each with its own session.  prompt_rag is a *)
(* coroutine that does not await before it returns its StreamingResponse:  *)
(* two requests handled by the same worker process do not interleave       *)
(* between the entry of the handler and its return, and interleave while   *)
(* the reply is streamed; requests handled by two worker processes         *)
(* interleave at every statement.                                          *)

\* the two requests in flight
Requests == {1, 2}

\* None where a chat id or a header is expected
NoChatId == "None"

\* the chat ids clients know
ChatIds == {"c1"}

\* the values of the X-Chat-Id header
Headers_ChatId == {NoChatId, "c1", "not-a-uuid"}

\* request.messages: the contents, in order
MessageLists == {[i \in 1..n |-> i] : n \in 0..MaxMessages}

\* the inputs of one request
Prompts == [messages : MessageLists, body_chat : ChatIds \cup {NoChatId},
            header : Headers_ChatId]

\* uuid.UUID(chat_id_header): the id, or ValueError
ParseUUID(h) == IF h \in ChatIds THEN h ELSE "ValueError"

\* provided_chat = request.chat_id or (uuid.UUID(chat_id_header) if chat_id_header else None)
ProvidedChat(body_chat, header) ==
    IF body_chat # NoChatId THEN body_chat
    ELSE IF header # NoChatId THEN ParseUUID(header)
    ELSE NoChatId

\* uuid.uuid4(): an id no client and no other request has
uuid4(r) == IF r = 1 THEN "u1" ELSE "u2"

\* ChatLogger.ensure_chat_id: chat_id or uuid.uuid4()
ensure_chat_id(chat_id, r) == IF chat_id # NoChatId THEN chat_id ELSE uuid4(r)

\* ChatLogger.next_sequence: (max(seq) of the rows of the chat or 0) + 1
next_sequence(rows, chat_id) ==
    LET seqs == {m.seq : m \in {x \in rows : x.chat_id = chat_id}}
    IN  (IF seqs = {} THEN 0 ELSE CHOOSE s \in seqs : \A t \in seqs : t <= s) + 1

\* ChatLogger.log_message: the row added to the session; by: the request that
\* added it (history)
log_message(chat_id, role, seq, r) ==
    [chat_id |-> chat_id, seq |-> seq, role |-> role, by |-> r]

\* db.commit() under UniqueConstraint("chat_id", "seq"): the rows of the session
\* are inserted, or IntegrityError is raised and nothing is inserted
Commit(table, session) ==
    IF \E m \in session, x \in table : m.chat_id = x.chat_id /\ m.seq = x.seq
    THEN [ok |-> FALSE, table |-> table]
    ELSE [ok |-> TRUE, table |-> table \cup session]

\* mutant: the messages are not tested
NoMessages_Never(messages) == FALSE

\* if not request.messages
NoMessages(messages) == messages = <<>>

\* streamed: "text" when the reply streamed was not empty, "empty" when it
\* was, "none" before the end of the stream (history); worker: the process
\* that handles the request
NewRequest(in, w) ==
    [messages |-> in.messages, body_chat |-> in.body_chat, header |-> in.header,
     at |-> "received", chat_id |-> NoChatId, retrieved |-> FALSE, next_seq |-> 0,
     session |-> {}, status |-> 0, detail |-> "", streamed |-> "none", worker |-> w]

\* the worker processes a request can be handled by
Workers(r) == IF r = 1 THEN {1} ELSE {1, 2}

\* the positions between the entry of the handler and its return
InHandler == {"resolve", "retrieve", "sequence", "log", "commit"}

\* the event loop of the worker of r is not inside the handler of another request
LoopFree(r) ==
    \A o \in Requests \ {r} : rq[o].worker = rq[r].worker => rq[o].at \notin InHandler

\* raise HTTPException(status_code, detail), or the 500 of the last handler;
\* the handlers of the try roll the session back
Respond(q, status_code, detail) ==
    [q EXCEPT !.at = "responded", !.status = status_code, !.detail = detail, !.session = {}]

\* the variables prompt_rag never touches
FeedVars == <<pc, stop, backoff, last_seq, persisted, since, streamPos, response,
              change, index, result, applied, waits, everConnected, crashes,
              secret, has_fn, reply, arg, ret, posted, status>>

InitPrompt ==
    /\ rq \in {q \in [Requests -> {NewRequest(in, w) : in \in Prompts, w \in {1, 2}}] :
                  \A r \in Requests : q[r].worker \in Workers(r)}
    /\ chat_messages = {}
    /\ pc = "prompt"
    /\ stop = FALSE /\ backoff = 1 /\ last_seq = 0 /\ persisted = 0 /\ since = 0
    /\ streamPos = 0 /\ response = "none" /\ change = NoChange /\ index = {}
    /\ result = NoResult /\ applied = {} /\ waits = <<>>
    /\ everConnected = FALSE /\ crashes = 0
    /\ secret = <<>> /\ has_fn = TRUE
    /\ arg = None /\ ret = FALSE /\ posted = <<>> /\ reply = "none"
    /\ status = 0

\* if not request.messages: raise HTTPException(400, "No messages provided")
CheckMessages ==
    \E r \in Requests :
        /\ rq[r].at = "received"
        /\ LoopFree(r)
        /\ rq' = [rq EXCEPT ![r] =
                    IF NoMessages(@.messages)
                    THEN Respond(@, 400, "No messages provided")
                    ELSE [@ EXCEPT !.at = "resolve"]]
        /\ UNCHANGED <<chat_messages, FeedVars>>

\* provided_chat, ensure_chat_id, request.messages[-1]
ResolveChat ==
    \E r \in Requests :
        /\ rq[r].at = "resolve"
        /\ LoopFree(r)
        /\ LET provided == ProvidedChat(rq[r].body_chat, rq[r].header)
           IN  rq' = [rq EXCEPT ![r] =
                        IF provided = "ValueError"
                        THEN Respond(@, 400, "Invalid X-Chat-Id header")
                        ELSE IF @.messages = <<>>
                        THEN Respond([@ EXCEPT !.chat_id = ensure_chat_id(provided, r)],
                                     500, "An internal error occurred.")
                        ELSE [@ EXCEPT !.chat_id = ensure_chat_id(provided, r),
                                       !.at = "retrieve"]]
        /\ UNCHANGED <<chat_messages, FeedVars>>

\* rag_service.get_relevant_documents_with_navigation(...), which can raise
Retrieve ==
    \E r \in Requests, ok \in BOOLEAN :
        /\ rq[r].at = "retrieve"
        /\ LoopFree(r)
        /\ rq' = [rq EXCEPT ![r] =
                    IF ok THEN [@ EXCEPT !.retrieved = TRUE, !.at = "sequence"]
                    ELSE Respond(@, 500, "An internal error occurred.")]
        /\ UNCHANGED <<chat_messages, FeedVars>>

\* next_seq = chat_logger.next_sequence(chat_id)
NextSequence ==
    \E r \in Requests :
        /\ rq[r].at = "sequence"
        /\ LoopFree(r)
        /\ rq' = [rq EXCEPT ![r] =
                    [@ EXCEPT !.next_seq = next_sequence(chat_messages, rq[r].chat_id),
                              !.at = "log"]]
        /\ UNCHANGED <<chat_messages, FeedVars>>

\* chat_logger.log_message(role="user", seq=next_seq, ...)
LogUser ==
    \E r \in Requests :
        /\ rq[r].at = "log"
        /\ LoopFree(r)
        /\ rq' = [rq EXCEPT ![r] =
                    [@ EXCEPT !.session = {log_message(rq[r].chat_id, "user", rq[r].next_seq, r)},
                              !.at = "commit"]]
        /\ UNCHANGED <<chat_messages, FeedVars>>

\* chat_logger.db.commit() of the user turn; then the StreamingResponse is returned
CommitUser ==
    \E r \in Requests :
        /\ rq[r].at = "commit"
        /\ LoopFree(r)
        /\ LET c == Commit(chat_messages, rq[r].session)
           IN  /\ chat_messages' = c.table
               /\ rq' = [rq EXCEPT ![r] =
                           IF c.ok
                           THEN [@ EXCEPT !.session = {}, !.status = 200, !.at = "stream"]
                           ELSE Respond(@, 500, "An internal error occurred.")]
        /\ UNCHANGED FeedVars

\* streaming_wrapper: the reply is streamed; when it is not empty the assistant
\* turn is logged with seq next_seq + 1 and committed, a failure rolled back
StreamReply ==
    \E r \in Requests, empty \in BOOLEAN :
        /\ rq[r].at = "stream"
        /\ LoopFree(r)
        /\ LET row == log_message(rq[r].chat_id, "assistant", rq[r].next_seq + 1, r)
               c == Commit(chat_messages, IF empty THEN {} ELSE {row})
           IN  chat_messages' = c.table
        /\ rq' = [rq EXCEPT ![r] =
                    [@ EXCEPT !.at = "responded",
                              !.streamed = IF empty THEN "empty" ELSE "text"]]
        /\ UNCHANGED FeedVars

NextPrompt ==
    \/ CheckMessages
    \/ ResolveChat
    \/ Retrieve
    \/ NextSequence
    \/ LogUser
    \/ CommitUser
    \/ StreamReply

SpecPrompt == InitPrompt /\ [][NextPrompt]_vars

----------------------------------------------------------------------------
(* Properties *)

\* C1: whenever a response is open, every feed position at or before the
\* cursor it was requested from has been handed to process_change: a listener
\* restarted after a crash resumes at the event it was handling or earlier.
\* (Violated: the cursor is written before process_change runs.)
C1_ResumeAtOrBeforeUnapplied ==
    response = "open" => \A k \in 1..since : k \in applied

\* C2: the persisted cursor never moves backwards.
C2_CursorMonotone == [][persisted' >= persisted]_vars

\* C2 witness: after a reconnect or restart from cursor >= 1, a change without
\* seq arrived and update_last_seq wrote the prior value again
C2_Witness ==
    /\ pc = "process" /\ ~change.hasSeq
    /\ since >= 1 /\ persisted = since /\ streamPos > since

\* C3: while no connection has succeeded, the n-th reconnect wait is
\* min(2^(n-1), 60), and the backoff is always between 1 and 60.
C3_BackoffSequence ==
    /\ ~everConnected => \A n \in 1..Len(waits) : waits[n] = Min(2 ^ (n - 1), 60)
    /\ backoff \in 1..60

\* C3 witness: eight failures in a row, the last two waits at the cap
C3_Witness ==
    /\ ~everConnected /\ ~stop
    /\ Len(waits) >= 8 /\ waits[7] = 60 /\ waits[8] = 60

\* C4: after a connection that succeeded and then dropped, the wait that is
\* about to be made, or is being made, is 1 second.
C4_ResetAfterConnect ==
    (response = "closed" /\ pc \in {"reconnect", "wait"}) => backoff = 1

\* C4 witness: the connection that dropped had succeeded after failures whose
\* waits had grown to 4 or more, and the listener is about to wait again
C4_Witness ==
    /\ response = "closed" /\ pc = "reconnect" /\ ~stop
    /\ Len(waits) >= 3 /\ waits[Len(waits)] >= 4
    /\ backoff = 1

\* the candidate of the slug derivation as the specification words it:
\* the ingested slug if present, else the path, else the document id
SpecCandidate(c, ingested) == Or(ingested, Or(c.path, Or(c.id, <<>>)))

\* the candidate with the prefix, a trailing ".md" and surrounding whitespace removed
SpecRemainder(cand) ==
    LET a == removeprefix(cand, S_blog)
        b == IF endswith(a, S_md) THEN SubSeq(a, 1, Len(a) - 3) ELSE a
    IN  strip(b)

\* the mutation of the last process_change went through
Mutated == result.mutation \in {"delete", "ingest"} /\ ~result.failed

\* C5 as stated: a change whose type is not "plain" or whose path is under
\* neither prefix causes no mutation and no notification, deleted or not.
\* (Violated: a deletion is applied whatever the type and the path.)
C5_UnrecognizedIgnored ==
    [][(/\ pc = "ready" /\ pc' = "done" /\ change.hasDoc
        /\ \/ change.type # "plain"
           \/ ~(startswith(Or(change.path, <<>>), S_blog)
                \/ startswith(Or(change.path, <<>>), S_kb)))
       => (index' = index /\ result'.calls = <<>>)]_vars

\* C5: a change that is not flagged deleted and whose type is not "plain" or
\* whose path is under neither prefix causes no mutation and no notification.
C5_UnrecognizedNotDeletedIgnored ==
    [][(/\ pc = "ready" /\ pc' = "done" /\ change.hasDoc /\ ~change.deleted
        /\ \/ change.type # "plain"
           \/ ~(startswith(Or(change.path, <<>>), S_blog)
                \/ startswith(Or(change.path, <<>>), S_kb)))
       => (index' = index /\ result'.mutation = "none" /\ result'.calls = <<>>)]_vars

\* C5 witness: a blog document of another type, and a plain document outside
\* the prefixes, were processed with a notifier bound and an index that holds
\* chunks of them: nothing was done
C5_Witness ==
    /\ pc = "done" /\ has_fn /\ change.hasDoc /\ ~change.deleted
    /\ \/ change.type # "plain" /\ startswith(Or(change.path, <<>>), S_blog)
       \/ change.type = "plain" /\ change.path = <<"/", "x", "/", "a">>
    /\ \E c \in index : c.document_id = change.id
    /\ result = NoResult

\* C6: when the candidate is under the blog prefix and nothing is left of it,
\* the notification is made, with a null slug, on the delete and on the
\* ingest path.  (Violated on the ingest path: a null slug is not notified.)
C6_ListingOnlyNotified ==
    (/\ pc = "done" /\ has_fn /\ change.hasDoc /\ Mutated
     /\ startswith(SpecCandidate(change, result.ingested), S_blog)
     /\ SpecRemainder(SpecCandidate(change, result.ingested)) = <<>>)
    => result.calls = <<None>>

\* C7: delete and ingest notify by the same rule: nothing when the untrimmed
\* candidate is not under the blog prefix, else the remainder as the slug.
\* (Violated: the delete path tests the trimmed candidate, the ingest path
\* trims the ingested slug.)
C7_SharedSlugDerivation ==
    LET cand == SpecCandidate(change, result.ingested)
    IN  (pc = "done" /\ has_fn /\ change.hasDoc /\ Mutated)
        => /\ ~startswith(cand, S_blog) => result.calls = <<>>
           /\ (startswith(cand, S_blog) /\ SpecRemainder(cand) # <<>>)
                 => result.calls = <<SpecRemainder(cand)>>

\* C8: a delete that goes through removes exactly the chunks of the document
\* id of the event, and reports their number.
C8_DeleteExactlyOwnChunks ==
    [][(pc = "ready" /\ pc' = "done" /\ change.hasDoc /\ change.deleted
        /\ ~result'.failed)
       => /\ index' = {c \in index : c.document_id # change.id}
          /\ result'.deleted_count
               = Cardinality({c \in index : c.document_id = change.id})]_vars

\* C8 witness: two chunks of the document were deleted and the chunks of the
\* other document are still there
C8_Witness ==
    /\ pc = "done" /\ change.hasDoc /\ change.deleted
    /\ result.mutation = "delete" /\ ~result.failed
    /\ result.deleted_count = 2
    /\ index # {} /\ \A c \in index : c.document_id # change.id

\* C9: without a secret every call returns false and issues no request.
C9_NoSecretNoRequest ==
    (pc = "returned" /\ ~Truthy(secret)) => (ret = FALSE /\ posted = <<>>)

\* C9 witness: a call with a slug, on a service whose secret is empty, with
\* an endpoint that would have answered with success
C9_Witness ==
    /\ pc = "returned" /\ secret = <<>> /\ arg = <<"p">>
    /\ ret = FALSE /\ posted = <<>>

\* C10: with a secret every call issues exactly one POST to the URL with the
\* secret header, without body for a null slug and with {"slug": slug} for a
\* slug, and returns true when the endpoint answers with success.
C10_OnePostPerCall ==
    [][(Truthy(secret) /\ pc' = "returned")
       => /\ Len(posted') = Len(posted) + 1
          /\ SubSeq(posted', 1, Len(posted)) = posted
          /\ LET q == posted'[Len(posted')]
             IN  /\ q.url = URL
                 /\ q.headers = [x_revalidate_secret |-> secret]
                 /\ arg' = None => q.json = None
                 /\ Truthy(arg') => q.json = <<"slug", arg'>>
                 /\ reply' = "ok" => ret' = TRUE]_vars

\* C10 witness: a call without slug and a call with a slug, the second
\* answered with success
C10_Witness ==
    /\ pc = "returned" /\ secret = <<"s">> /\ Len(posted) = 2
    /\ posted[1].json = None
    /\ posted[2].json = <<"slug", <<"m", "y", "-", "p", "o", "s", "t">>>>
    /\ reply = "ok" /\ ret = TRUE

\* C11: when the secret is set and the POST of a notification fails (the
\* transport raises or times out, or the status is an error), the call
\* returns False and no exception leaves process_change; the step leaves the
\* listener reading the same open response with the cursor, the feed position
\* and the backoff it had: what a successful notification leaves.
C11_FailedPostContained ==
    [][(pc = "process" /\ pc' # "process" /\ crashes' = crashes
          /\ Truthy(secret) /\ result'.replies # <<>> /\ result'.replies[1] # "ok")
        => /\ result'.returned = <<FALSE>>
           /\ ~result'.raised
           /\ pc' = "stream" /\ response' = "open" /\ response = "open"
           /\ persisted' = persisted /\ last_seq' = last_seq
           /\ streamPos' = streamPos /\ backoff' = backoff /\ stop' = stop]_vars

C11_Witness ==
    /\ pc = "stream" /\ response = "open" /\ secret = <<"s">>
    /\ result.replies = <<"transport_error">> /\ result.returned = <<FALSE>>
    /\ result.mutation = "ingest" /\ persisted = 2 /\ streamPos = 2

\* C12: once the flag is set, no response is opened: a step taken with the
\* flag set never turns a response that is not open into an open one.
\* (Violated: the flag is tested at the top of the loop only, and a
\* stop_listener() that lands after the test does not prevent the request.)
C12_NoConnectionAfterStop ==
    [][(stop /\ crashes' = crashes) => ~(response # "open" /\ response' = "open")]_vars

\* the steps the listener takes by itself, without a line, an end of stream
\* or an error coming from the feed
ListenerStep == LoopCheck \/ Connect \/ Process \/ ReconnectCheck \/ WaitDone

\* C13: with the flag set and the listener not yet stopped, the listener
\* always has a step of its own to take, so that it reaches its terminal
\* state without another line arriving from the feed.
\* (Violated: while it reads the stream the flag is tested only when a line
\* arrives, and the read has no timeout.)
C13_StopNeedsNoLine ==
    (stop /\ pc # "stopped") => ENABLED ListenerStep

\* C14: a line that is not blank and is no JSON leaves the persisted cursor
\* and the index as they were and calls no notification, and the listener
\* goes on reading the same open response, where the next change of the feed
\* can be received.
C14_InvalidLineSkipped ==
    /\ [][(result' # result /\ result'.mutation = "invalid_json")
            => /\ persisted' = persisted /\ last_seq' = last_seq
               /\ index' = index /\ applied' = applied
               /\ result'.calls = <<>> /\ result'.posted = <<>>
               /\ pc' = "stream" /\ response' = "open" /\ response = "open"
               /\ streamPos' = streamPos /\ since' = since]_vars
    /\ []((pc = "stream" /\ result.mutation = "invalid_json" /\ ~stop /\ streamPos < MaxSeq)
            => ENABLED RecvChange)

\* a change was handled and applied after an unparseable line of the same response
C14_Witness ==
    /\ pc = "stream" /\ response = "open"
    /\ result.earlier = "invalid_json" /\ result.mutation = "ingest" /\ ~result.failed
    /\ persisted = streamPos /\ streamPos \in applied /\ index # {}

\* C15: for every parsed change the cursor is written (the seq of the change,
\* or the cursor as it was when the change has no seq) in a step that neither
\* changes the index nor notifies, and the step that then runs process_change,
\* whatever branch it takes, finds that cursor written and leaves it alone.
C15_CursorBeforeMutation ==
    /\ [][(pc = "stream" /\ pc' = "process")
            => /\ persisted' = IF change'.hasSeq THEN change'.seq ELSE persisted
               /\ index' = index /\ applied' = applied
               /\ result'.mutation = "none" /\ result'.calls = <<>>]_vars
    /\ [][(pc = "process" /\ pc' # "process" /\ crashes' = crashes)
            => /\ change.hasSeq => persisted = change.seq
               /\ persisted = last_seq
               /\ persisted' = persisted]_vars

\* the cursor of a deletion is written while the chunks it removes are still there
C15_Witness ==
    /\ pc = "process" /\ change.hasDoc /\ change.deleted /\ change.hasSeq
    /\ change.seq = 2 /\ persisted = 2
    /\ ChunksOf(index, change.id) # {}

\* C16: when the index operation of a change fails (ingest_fn raises, or the
\* delete query raises), the listener goes on reading the same open response,
\* the cursor written for the change is kept, and every later change of the
\* response still has its cursor written and process_change run on it.
C16_MutationFailureContained ==
    /\ [][(pc = "process" /\ pc' # "process" /\ crashes' = crashes /\ result'.failed)
            => /\ pc' = "stream" /\ response' = "open" /\ response = "open"
               /\ persisted' = persisted /\ last_seq' = last_seq
               /\ streamPos' = streamPos /\ index' = index]_vars
    /\ [][(pc = "stream" /\ pc' = "process" /\ result.failed)
            => result'.earlier = "failed"]_vars
    /\ [][(pc = "stream" /\ pc' = "process" /\ (result.failed \/ result.earlier = "failed"))
            => persisted' = IF change'.hasSeq THEN change'.seq ELSE persisted]_vars
    /\ [][(pc = "process" /\ pc' # "process" /\ crashes' = crashes /\ result.earlier = "failed")
            => /\ change.seq \in applied'
               /\ (change.hasDoc /\ (change.deleted \/ ~Skipped(change)))
                     => result'.mutation \in {"delete", "ingest"}]_vars
    /\ []((pc = "stream" /\ result.failed /\ ~stop /\ streamPos < MaxSeq) => ENABLED RecvChange)

\* after a failed ingest at position 1, the change at position 2 has its
\* cursor written and its document ingested on the same response
C16_Witness ==
    /\ pc = "stream" /\ response = "open" /\ since = 0 /\ crashes = 0
    /\ result.earlier = "failed" /\ result.mutation = "ingest" /\ ~result.failed
    /\ persisted = 2 /\ streamPos = 2 /\ index # {}

\* a step in which a line is found malformed, an index operation fails or a
\* notification fails
LineErrorStep ==
    \/ result' # result /\ result'.mutation \in {"invalid_json", "not_an_object"}
    \/ pc = "process" /\ pc' # "process" /\ crashes' = crashes
         /\ (result'.failed \/ (result'.replies # <<>> /\ result'.replies[1] # "ok"))

\* a step in which the request fails, the server closes the response or
\* reading it raises
ConnectionErrorStep ==
    /\ pc \in {"connect", "stream"} /\ crashes' = crashes
    /\ pc' \notin {"connect", "stream", "process", "stopped"}

\* C17 as stated: the listener stops only with the flag set, and after any
\* error (transport error, server close, malformed line, mutation error,
\* notification error, unexpected exception) with the flag clear it goes to
\* the backoff wait.
\* (Violated: an error confined to one line leaves the listener reading the
\* same response, with no wait and no new connection.)
C17_AnyErrorBacksOff ==
    /\ [][pc' = "stopped" => stop]_vars
    /\ [][((LineErrorStep \/ ConnectionErrorStep) /\ ~stop) => pc' = "reconnect"]_vars

\* C17, amended: the listener stops only with the flag set; after an error of
\* the connection (the request fails, the server closes, reading raises) with
\* the flag clear it waits the backoff, then tests the flag, then attempts a
\* new connection; after an error confined to one line (malformed line,
\* mutation error, notification error) it goes on reading the same response.
C17_OnlyStopTerminates ==
    /\ [][pc' = "stopped" => stop]_vars
    /\ [][ConnectionErrorStep => pc' = "reconnect"]_vars
    /\ [][(pc = "reconnect" /\ pc' # pc /\ crashes' = crashes /\ ~stop) => pc' = "wait"]_vars
    /\ [][(pc = "wait" /\ pc' # pc /\ crashes' = crashes) => pc' = "loop"]_vars
    /\ [][(pc = "loop" /\ pc' # pc /\ crashes' = crashes /\ ~stop) => pc' = "connect"]_vars
    /\ [][LineErrorStep => (pc' = "stream" /\ response' = "open")]_vars
    /\ []((pc \in {"reconnect", "wait", "loop", "connect"}) => ENABLED ListenerStep)

\* after a response that delivered changes was lost, the listener has waited
\* and is about to request the feed again, the flag clear
C17_Witness ==
    /\ pc = "connect" /\ ~stop /\ crashes = 0
    /\ everConnected /\ waits = <<1>> /\ persisted = 2

\* C18: every request of the feed, the first one, the one after a restart and
\* every reconnect, whether it succeeds or fails, carries as since the cursor
\* that is persisted when it is made, and an open response starts delivering
\* right after that position.
C18_SinceIsPersistedCursor ==
    [][(pc = "connect" /\ pc' # "connect" /\ crashes' = crashes)
        => /\ since' = persisted /\ persisted' = persisted
           /\ (response' = "open" => streamPos' = persisted)]_vars

\* a reconnect after a restart requests the feed from the persisted cursor,
\* which the locals of the new process do not hold
C18_Witness ==
    /\ pc = "stream" /\ response = "open" /\ crashes = 1
    /\ since = 1 /\ persisted = 1 /\ streamPos = 1 /\ waits # <<>>

\* C19: running process_change a second time on the same change leaves the
\* index as the first run left it, for a change that is ingested (the chunks
\* of its document are replaced) and for one that is deleted (the rows of its
\* document id are removed), and for one that is ignored.
C19_SecondRunKeepsIndex ==
    [][(pc = "done" /\ pc' = "again")
        => /\ index' = index
           /\ (Mutated /\ result.mutation = "ingest")
                 => Cardinality(ChunksOf(index', change.id)) = result.chunks]_vars

\* a document ingested twice has the two chunks of one ingest, and the chunks
\* of the other document are still there
C19_Witness ==
    /\ pc = "again" /\ change.hasDoc /\ ~change.deleted
    /\ result.mutation = "ingest" /\ ~result.failed /\ result.chunks = 2
    /\ Cardinality(ChunksOf(index, change.id)) = 2
    /\ \E c \in index : c.document_id # change.id

\* C20: a POST /prompt whose messages list is empty is answered 400 with
\* detail "No messages provided", and at no point of its handling has a chat
\* id been allocated for it, a document been retrieved for it, or a chat
\* message of it been added to the session or to the table.
C20_EmptyMessagesRejectedFirst ==
    pc = "prompt" =>
        \A r \in Requests :
            rq[r].messages = <<>>
            => /\ rq[r].at \in {"received", "responded"}
               /\ rq[r].at = "responded"
                    => (rq[r].status = 400 /\ rq[r].detail = "No messages provided")
               /\ rq[r].chat_id = NoChatId
               /\ ~rq[r].retrieved
               /\ rq[r].session = {}
               /\ \A m \in chat_messages : m.by # r

\* a request with no messages was answered 400 although it carried a header
\* that is no uuid, while the other request logged both its turns
C20_Witness ==
    /\ pc = "prompt"
    /\ \E r \in Requests :
          /\ rq[r].messages = <<>> /\ rq[r].header = "not-a-uuid"
          /\ rq[r].at = "responded" /\ rq[r].status = 400
          /\ rq[r].detail = "No messages provided"
    /\ Cardinality(chat_messages) = 2

\* C21: a line that is empty or holds only whitespace is skipped as a
\* heartbeat: the persisted cursor, the local cursor, the index, the backoff
\* and the feed position are unchanged, no notification is made, and the
\* listener goes on reading the same open response.
C21_HeartbeatChangesNothing ==
    [][(pc = "stream" /\ result' # result /\ result'.mutation # "none"
          /\ strip(result'.line) = <<>>)
        => /\ result'.mutation = "blank"
           /\ persisted' = persisted /\ last_seq' = last_seq
           /\ index' = index /\ applied' = applied /\ backoff' = backoff
           /\ streamPos' = streamPos /\ since' = since
           /\ result'.calls = <<>> /\ result'.posted = <<>>
           /\ pc' = "stream" /\ response' = "open" /\ response = "open"]_vars

\* a whitespace-only line was skipped on a response that had already
\* delivered and ingested a change
C21_Witness ==
    /\ pc = "stream" /\ response = "open" /\ ~stop
    /\ result.mutation = "blank" /\ result.line = <<" ", " ">>
    /\ persisted = 1 /\ streamPos = 1 /\ index # {}

\* C22: when ingest_fn raises for a document of type plain under the blog or
\* the knowledge-base prefix, process_change calls no notification and issues
\* no request, and the index is left as it was, also when the path of the
\* document is under the blog prefix.
C22_NoNotificationOnIngestFailure ==
    [][(pc = "ready" /\ pc' = "done" /\ change.hasDoc /\ ~change.deleted
          /\ ~Skipped(change) /\ result'.failed)
        => /\ result'.mutation = "ingest"
           /\ result'.calls = <<>> /\ result'.returned = <<>> /\ result'.posted = <<>>
           /\ index' = index]_vars

\* the ingest of a blog post failed with a notifier and a secret in place,
\* and no notification was made
C22_Witness ==
    /\ pc = "done" /\ change.hasDoc /\ ~change.deleted /\ change.type = "plain"
    /\ change.path = S_blog \o <<"p">> \o S_md
    /\ has_fn /\ secret = <<"s">>
    /\ result.mutation = "ingest" /\ result.failed
    /\ result.calls = <<>> /\ result.posted = <<>>

\* C23: the step in which a response starts sets the backoff to 1, whatever
\* the status of the response and before any line of it is handled; and the
\* wait that follows a response that started and then ended is 1 second,
\* however many such responses came before it.
C23_ResetAtResponseStart ==
    /\ [][(pc = "connect" /\ pc' = "stream")
            => /\ backoff' = InitialBackoff
               /\ response' = "open" /\ result' = result
               /\ status' \in ErrorStatuses \cup {200}]_vars
    /\ [][(pc = "reconnect" /\ pc' = "wait" /\ response = "closed")
            => (backoff = InitialBackoff /\ waits' = <<InitialBackoff>>)]_vars

\* a response with an error status has started after a wait, which had
\* doubled the backoff: the backoff is 1 again and no line has been handled
C23_Witness ==
    /\ pc = "stream" /\ response = "open" /\ status \in ErrorStatuses
    /\ waits = <<1>> /\ backoff = 1 /\ result = NoResult /\ ~stop

\* the rows of request r in the table
RowsOf(r, role) == {m \in chat_messages : m.by = r /\ m.role = role}

\* C24: whatever the interleaving of two requests, no two rows of a chat
\* have the same seq, every request that got as far as computing its seq and
\* has been answered has its user message in the table at that seq, and
\* every such request whose stream was not empty has its assistant reply in
\* the table at that seq + 1.
\* (Violated: next_sequence reads max(seq) + 1 without a lock, and the
\* assistant row is written after the stream, when the other request may
\* have taken that seq; the unique constraint then rejects one of the rows.)
C24_EveryTurnPersisted ==
    pc = "prompt" =>
        /\ \A m, n \in chat_messages : (m.chat_id = n.chat_id /\ m.seq = n.seq) => m = n
        /\ \A r \in Requests :
              (rq[r].at = "responded" /\ rq[r].next_seq > 0)
              => /\ \E m \in RowsOf(r, "user") :
                        m.chat_id = rq[r].chat_id /\ m.seq = rq[r].next_seq
                 /\ rq[r].streamed = "text"
                      => \E m \in RowsOf(r, "assistant") :
                            m.chat_id = rq[r].chat_id /\ m.seq = rq[r].next_seq + 1

\* the same, for two requests handled by one worker process, which interleave
\* only while a reply is streamed
C24_OneWorker ==
    (pc = "prompt" /\ \A r \in Requests : rq[r].worker = 1) => C24_EveryTurnPersisted

====
